---- MODULE Spec2Model ----
(***************************************************************************)
(* xtomarkdown: engine registry, engine selection and the DocumentConverter *)
(* facade.  Strings that the code normalises (file extensions, file names)  *)
(* are sequences of one-character strings, so that lower() and lstrip(".") *)
(* are computed character by character.  Engine ids and error messages are  *)
(* compared as whole strings by the code and are plain strings here.        *)
(***************************************************************************)
EXTENDS Integers, Sequences, FiniteSets, TLC

VARIABLES
  engines,      \* EngineRegistry._engines: engine objects in dict (insertion) order
  available,    \* registered engine object -> what its is_available() answers now
  settings,     \* the Settings object shared by the facade
  disk,         \* the settings file: Absent, or its content
  last,         \* the most recent query of the current state: arguments, result, engine calls
  window,       \* MainWindow: _worker, _ask_output_paths, whether prefs_btn is enabled
  worker,       \* the ConversionWorker thread: its files and where run() stands
  emitted       \* the signals the current worker has emitted, in order

vars == <<engines, available, settings, disk, last, window, worker, emitted>>

\* the state of the window and of its worker thread
gui == <<window, worker, emitted>>

-----------------------------------------------------------------------------
(* Python values *)

\* Python's None where a str (or an engine object) is expected
None == "<None>"

\* Optional values that are not strings (Path, list): <<>> is None, <<v>> is v
Nothing == <<>>

Some(v) == <<v>>

\* Python truthiness of an optional str: None and "" are falsy
Truthy(s) == s # None /\ s # ""

UpperChars ==
  <<"A","B","C","D","E","F","G","H","I","J","K","L","M",
    "N","O","P","Q","R","S","T","U","V","W","X","Y","Z">>

LowerChars ==
  <<"a","b","c","d","e","f","g","h","i","j","k","l","m",
    "n","o","p","q","r","s","t","u","v","w","x","y","z">>

\* str.lower() on one character
LowerChar(c) ==
  IF \E i \in 1..Len(UpperChars) : UpperChars[i] = c
  THEN LowerChars[CHOOSE i \in 1..Len(UpperChars) : UpperChars[i] = c]
  ELSE c

\* str.lower()
Lower(s) == [i \in 1..Len(s) |-> LowerChar(s[i])]

RECURSIVE LStripDots(_)
\* str.lstrip("."): drops every leading dot
LStripDots(s) ==
  IF s # <<>> /\ Head(s) = "." THEN LStripDots(Tail(s)) ELSE s

\* normalize_extension removing one leading dot only
normalize_extension_onedot(extension) ==
  IF Lower(extension) # <<>> /\ Head(Lower(extension)) = "."
  THEN Tail(Lower(extension))
  ELSE Lower(extension)

\* file_mapping.normalize_extension
normalize_extension(extension) == LStripDots(Lower(extension))

-----------------------------------------------------------------------------
(* Format Policy Table *)

\* the extension literals of defaults.py and of the engines' supported_formats
Ext ==
  [
    docx |-> <<"d","o","c","x">>,
    doc |-> <<"d","o","c">>,
    xlsx |-> <<"x","l","s","x">>,
    xls |-> <<"x","l","s">>,
    pptx |-> <<"p","p","t","x">>,
    ppt |-> <<"p","p","t">>,
    pdf |-> <<"p","d","f">>,
    rtf |-> <<"r","t","f">>,
    odt |-> <<"o","d","t">>,
    html |-> <<"h","t","m","l">>,
    htm |-> <<"h","t","m">>,
    epub |-> <<"e","p","u","b">>,
    csv |-> <<"c","s","v">>,
    json |-> <<"j","s","o","n">>,
    xml |-> <<"x","m","l">>,
    tex |-> <<"t","e","x">>,
    latex |-> <<"l","a","t","e","x">>,
    rst |-> <<"r","s","t">>,
    org |-> <<"o","r","g">>,
    jpg |-> <<"j","p","g">>,
    jpeg |-> <<"j","p","e","g">>,
    png |-> <<"p","n","g">>,
    gif |-> <<"g","i","f">>,
    webp |-> <<"w","e","b","p">>,
    wav |-> <<"w","a","v">>,
    mp3 |-> <<"m","p","3">>,
    zip |-> <<"z","i","p">>,
    xyz |-> <<"x","y","z">>,
    md |-> <<"m","d">>
  ]

\* defaults.DEFAULT_ENGINE_MAPPING: extension -> <<default engine, fallback engine or None>>
DEFAULT_ENGINE_MAPPING ==
  (Ext.docx :> <<"pandoc", "markitdown">>) @@
  (Ext.doc  :> <<"pandoc", None>>) @@
  (Ext.xlsx :> <<"markitdown", "pandoc">>) @@
  (Ext.xls  :> <<"markitdown", None>>) @@
  (Ext.pptx :> <<"markitdown", "pandoc">>) @@
  (Ext.ppt  :> <<"markitdown", None>>) @@
  (Ext.pdf  :> <<"pandoc", "markitdown">>) @@
  (Ext.rtf  :> <<"pandoc", None>>) @@
  (Ext.odt  :> <<"pandoc", None>>) @@
  (Ext.html :> <<"pandoc", "markitdown">>) @@
  (Ext.htm  :> <<"pandoc", "markitdown">>) @@
  (Ext.epub :> <<"pandoc", "markitdown">>) @@
  (Ext.csv  :> <<"markitdown", None>>) @@
  (Ext.json :> <<"markitdown", None>>) @@
  (Ext.xml  :> <<"markitdown", None>>)

\* defaults.SUPPORTED_FORMATS
SUPPORTED_FORMATS == DOMAIN DEFAULT_ENGINE_MAPPING

\* file_mapping.get_engine_for_format
get_engine_for_format(extension) ==
  LET ext == normalize_extension(extension) IN
    IF ext \in DOMAIN DEFAULT_ENGINE_MAPPING
    THEN DEFAULT_ENGINE_MAPPING[ext][1]
    ELSE None

\* file_mapping.get_fallback_engine
get_fallback_engine(extension) ==
  LET ext == normalize_extension(extension) IN
    IF ext \in DOMAIN DEFAULT_ENGINE_MAPPING /\ Len(DEFAULT_ENGINE_MAPPING[ext]) > 1
    THEN DEFAULT_ENGINE_MAPPING[ext][2]
    ELSE None

\* file_mapping.is_supported_format
is_supported_format(extension) == normalize_extension(extension) \in SUPPORTED_FORMATS

-----------------------------------------------------------------------------
(* Engines *)

\* The engine objects that get registered: the two built-in engines, the
\* test suite's MockEngine and CustomEngine, and a stand-in registered under
\* the id "pandoc" that declares csv only and is always available.
EngineObjects == {"PandocEngine", "MarkItDownEngine", "MockEngine", "CustomEngine", "PandocDouble"}

\* BaseEngine.name of each engine object
EngineName ==
  [ PandocEngine |-> "pandoc", MarkItDownEngine |-> "markitdown",
    MockEngine |-> "mockengine", CustomEngine |-> "custom", PandocDouble |-> "pandoc" ]

\* BaseEngine.supported_formats of each engine object
supported_formats ==
  [ PandocEngine |->
      { Ext.docx, Ext.doc, Ext.pdf, Ext.html, Ext.htm, Ext.rtf, Ext.odt,
        Ext.epub, Ext.pptx, Ext.xlsx, Ext.tex, Ext.latex, Ext.rst, Ext.org },
    MarkItDownEngine |->
      { Ext.docx, Ext.pdf, Ext.pptx, Ext.xlsx, Ext.xls, Ext.html, Ext.htm,
        Ext.csv, Ext.json, Ext.xml, Ext.epub, Ext.jpg, Ext.jpeg, Ext.png,
        Ext.gif, Ext.webp, Ext.wav, Ext.mp3, Ext.zip },
    MockEngine |-> { Ext.docx, Ext.pdf, Ext.xlsx },
    CustomEngine |-> { Ext.docx },
    PandocDouble |-> { Ext.csv } ]

\* BaseEngine.supports_format
supports_format(engine, extension) ==
  LStripDots(Lower(extension)) \in supported_formats[engine]

\* engine.is_available() in the current state
is_available(engine) == available[engine]

-----------------------------------------------------------------------------
(* EngineRegistry *)

\* position of the engine registered under `name` in the dict, 0 if there is none
IndexOfName(regs, name) ==
  IF \E i \in 1..Len(regs) : EngineName[regs[i]] = name
  THEN CHOOSE i \in 1..Len(regs) : EngineName[regs[i]] = name
  ELSE 0

\* register keeping the engine already stored under the id
register_first_wins(regs, engine) ==
  IF IndexOfName(regs, EngineName[engine]) = 0 THEN Append(regs, engine) ELSE regs

\* EngineRegistry.register: self._engines[engine.name] = engine.  A new key is
\* appended to the dict; an existing key keeps its position and gets the new value.
register(regs, engine) ==
  LET i == IndexOfName(regs, EngineName[engine]) IN
    IF i = 0 THEN Append(regs, engine) ELSE [regs EXCEPT ![i] = engine]

\* EngineRegistry.get
get(name) ==
  LET i == IndexOfName(engines, name) IN
    IF i = 0 THEN None ELSE engines[i]

\* EngineRegistry.get_all
get_all == engines

\* get_available answering from the list of the previous call
get_available_cached ==
  IF last.op = "get_available" THEN last.value ELSE SelectSeq(engines, is_available)

\* EngineRegistry.get_available
get_available == SelectSeq(engines, is_available)

\* FirstSupporting with the loop keeping the last hit instead of returning at the first
FirstSupporting_last(avail, ext) ==
  IF \E i \in 1..Len(avail) : supports_format(avail[i], ext)
  THEN avail[CHOOSE i \in 1..Len(avail) :
               /\ supports_format(avail[i], ext)
               /\ \A j \in (i+1)..Len(avail) : ~supports_format(avail[j], ext)]
  ELSE None

\* the "last resort" loop of get_for_extension: the first engine of
\* get_available() that supports ext, None when the loop ends without a hit
FirstSupporting(avail, ext) ==
  IF \E i \in 1..Len(avail) : supports_format(avail[i], ext)
  THEN avail[CHOOSE i \in 1..Len(avail) :
               /\ supports_format(avail[i], ext)
               /\ \A j \in 1..(i-1) : ~supports_format(avail[j], ext)]
  ELSE None

\* BaseEngine.display_name of each engine object
display_name ==
  [ PandocEngine |-> "Pandoc", MarkItDownEngine |-> "MarkItDown",
    MockEngine |-> "Mock Engine", CustomEngine |-> "Custom", PandocDouble |-> "Pandoc" ]

\* engine.get_version(): the built-in engines ask their tool and answer None
\* when it is missing, BaseEngine answers None (a version string an engine
\* fetched earlier and kept is not distinguished; no property reads it)
get_version(engine) ==
  IF engine \in {"PandocEngine", "MarkItDownEngine"} /\ is_available(engine)
  THEN "version"
  ELSE None

\* get_for_extension with the last-resort loop over get_all()
get_for_extension_anyregistered(extension) ==
  FirstSupporting(get_all, normalize_extension(extension))

\* get_for_extension trusting the policy table: no supports_format check on the
\* default and fallback engines
get_for_extension_trusting(extension) ==
  LET ext == normalize_extension(extension)
      default_engine_name == get_engine_for_format(ext)
      fallback_name == get_fallback_engine(ext)
  IN  IF /\ Truthy(default_engine_name)
         /\ get(default_engine_name) # None
         /\ is_available(get(default_engine_name))
      THEN get(default_engine_name)
      ELSE IF /\ Truthy(fallback_name)
              /\ get(fallback_name) # None
              /\ is_available(get(fallback_name))
      THEN get(fallback_name)
      ELSE FirstSupporting(get_available, ext)

\* EngineRegistry.get_for_extension
get_for_extension(extension) ==
  LET ext == normalize_extension(extension)
      default_engine_name == get_engine_for_format(ext)
      fallback_name == get_fallback_engine(ext)
  IN  IF /\ Truthy(default_engine_name)
             /\ get(default_engine_name) # None
             /\ is_available(get(default_engine_name))
             /\ supports_format(get(default_engine_name), ext)
      THEN get(default_engine_name)
      ELSE IF /\ Truthy(fallback_name)
              /\ get(fallback_name) # None
              /\ is_available(get(fallback_name))
              /\ supports_format(get(fallback_name), ext)
      THEN get(fallback_name)
      ELSE FirstSupporting(get_available, ext)

\* get_engines_for_extension without the availability filter
get_engines_for_extension_all(extension) ==
  LET ext == normalize_extension(extension) IN
    SelectSeq(get_all, LAMBDA e : supports_format(e, ext))

\* EngineRegistry.get_engines_for_extension
get_engines_for_extension(extension) ==
  LET ext == normalize_extension(extension) IN
    SelectSeq(get_available, LAMBDA e : supports_format(e, ext))

\* the entry DocumentConverter.get_available_engines builds for one engine
EngineInfo(engine) ==
  [ name |-> EngineName[engine], display_name |-> display_name[engine],
    version |-> get_version(engine), available |-> is_available(engine) ]

\* DocumentConverter.get_available_engines: one entry per engine of get_all()
get_available_engines == [ i \in 1..Len(get_all) |-> EngineInfo(get_all[i]) ]

-----------------------------------------------------------------------------
(* Settings *)

\* Settings(): the dataclass defaults
DefaultSettings ==
  [ output_mode |-> "same",
    output_folder |-> Nothing,
    engine_overrides |-> <<>>,
    window_width |-> 700,
    window_height |-> 500,
    window_x |-> Nothing,
    window_y |-> Nothing ]

\* Settings.get_engine_for_extension: engine_overrides.get(ext.lower().lstrip("."))
get_engine_for_extension(ext) ==
  LET key == LStripDots(Lower(ext)) IN
    IF key \in DOMAIN settings.engine_overrides
    THEN settings.engine_overrides[key]
    ELSE None

-----------------------------------------------------------------------------
(* Settings persistence: asdict, json.dumps / json.loads, the settings file *)

\* the names of the dataclass fields
FieldNames == DOMAIN DefaultSettings

\* Python values carry their type: NoneType, str, int, dict, list
PyNone == <<"NoneType">>

PyStr(s) == <<"str", s>>

PyInt(n) == <<"int", n>>

PyDict(d) == <<"dict", d>>

PyList(l) == <<"list", l>>

\* dataclasses.asdict(self): a dict of the seven fields; output_folder, window_x
\* and window_y are None or a value, engine_overrides is a dict of str to str
asdict(s) ==
  PyDict([ output_mode |-> PyStr(s.output_mode),
           output_folder |-> IF s.output_folder = Nothing THEN PyNone
                             ELSE PyStr(s.output_folder[1]),
           engine_overrides |-> PyDict([k \in DOMAIN s.engine_overrides |->
                                          PyStr(s.engine_overrides[k])]),
           window_width |-> PyInt(s.window_width),
           window_height |-> PyInt(s.window_height),
           window_x |-> IF s.window_x = Nothing THEN PyNone ELSE PyInt(s.window_x[1]),
           window_y |-> IF s.window_y = Nothing THEN PyNone ELSE PyInt(s.window_y[1]) ])

\* json.dumps(obj): None -> null, str -> string, int -> number, dict -> object,
\* list -> array; the result stands for the JSON text of that document
RECURSIVE dumps(_)
dumps(obj) ==
  CASE obj[1] = "NoneType" -> <<"null">>
    [] obj[1] = "str" -> <<"string", obj[2]>>
    [] obj[1] = "int" -> <<"number", obj[2]>>
    [] obj[1] = "dict" -> <<"object", [k \in DOMAIN obj[2] |-> dumps(obj[2][k])]>>
    [] obj[1] = "list" -> <<"array", [i \in DOMAIN obj[2] |-> dumps(obj[2][i])]>>

\* json.loads(text) of a well-formed document: null -> None, string -> str,
\* number -> int, object -> dict, array -> list
RECURSIVE loads(_)
loads(doc) ==
  CASE doc[1] = "null" -> PyNone
    [] doc[1] = "string" -> PyStr(doc[2])
    [] doc[1] = "number" -> PyInt(doc[2])
    [] doc[1] = "object" -> PyDict([k \in DOMAIN doc[2] |-> loads(doc[2][k])])
    [] doc[1] = "array" -> PyList([i \in DOMAIN doc[2] |-> loads(doc[2][i])])

\* what the settings file can be: not there; the UTF-8 text of a JSON document;
\* a proper prefix of such a text (the closing brace is missing, so it is not
\* JSON; the empty file is one); text that is not JSON; bytes that are not
\* UTF-8; a file the process may not read
Absent == <<"absent">>

Text(doc) == <<"text", doc>>

Partial(doc) == <<"partial", doc>>

NotJson == <<"garbage">>

NotUtf8 == <<"binary">>

Unreadable == <<"unreadable">>

\* a call that returns v, a call that raises exception e
Returned(v) == [raised |-> None, value |-> v]

Raise(e) == [raised |-> e, value |-> <<>>]

\* path.exists()
path_exists(file) == file # Absent

\* path.read_text(encoding="utf-8")
read_text(file) ==
  CASE file = Unreadable -> Raise("PermissionError")
    [] file = NotUtf8 -> Raise("UnicodeDecodeError")
    [] OTHER -> Returned(file)

\* json.loads(text)
json_loads(text) ==
  IF text[1] = "text" THEN Returned(loads(text[2])) ELSE Raise("JSONDecodeError")

\* mutant of Settings_init: keyword arguments that name no field are ignored
Settings_init_lenient(data) ==
  IF data[1] # "dict"
  THEN Raise("TypeError")
  ELSE Returned([f \in FieldNames |->
                   IF f \in DOMAIN data[2] THEN data[2][f] ELSE asdict(DefaultSettings)[2][f]])

\* cls(**data), the generated dataclass __init__: data must be a mapping, a key
\* that names no field is a TypeError, a missing field takes its default, and
\* the values are stored as they come (a dataclass does not check types)
Settings_init(data) ==
  IF data[1] # "dict" \/ ~(DOMAIN data[2] \subseteq FieldNames)
  THEN Raise("TypeError")
  ELSE Returned([f \in FieldNames |->
                   IF f \in DOMAIN data[2] THEN data[2][f] ELSE asdict(DefaultSettings)[2][f]])

\* the Settings object of a Settings value of the model, field by field
SettingsObject(s) == asdict(s)[2]

\* the Settings value of a Settings object whose fields have the declared types
SettingsOf(obj) ==
  [ output_mode |-> obj.output_mode[2],
    output_folder |-> IF obj.output_folder = PyNone THEN Nothing
                      ELSE Some(obj.output_folder[2]),
    engine_overrides |-> [k \in DOMAIN obj.engine_overrides[2] |->
                            obj.engine_overrides[2][k][2]],
    window_width |-> obj.window_width[2],
    window_height |-> obj.window_height[2],
    window_x |-> IF obj.window_x = PyNone THEN Nothing ELSE Some(obj.window_x[2]),
    window_y |-> IF obj.window_y = PyNone THEN Nothing ELSE Some(obj.window_y[2]) ]

\* mutant of load_caught: TypeError is not caught
load_caught_json_only == {"JSONDecodeError", "KeyError"}

\* the except clause of load
load_caught == {"JSONDecodeError", "TypeError", "KeyError"}

\* the try block of load: cls(**json.loads(path.read_text(encoding="utf-8")))
load_try(file) ==
  LET text == read_text(file) IN
    IF text.raised # None THEN text
    ELSE LET data == json_loads(text.value) IN
           IF data.raised # None THEN data
           ELSE Settings_init(data.value)

\* Settings.load
load(file) ==
  IF path_exists(file)
  THEN LET r == load_try(file) IN
         IF r.raised = None THEN r
         ELSE IF r.raised \in load_caught THEN Returned(SettingsObject(DefaultSettings))
         ELSE r
  ELSE Returned(SettingsObject(DefaultSettings))

\* mutant of save: the last field is not written
save_without_window_y(s) ==
  Text(dumps(PyDict([f \in FieldNames \ {"window_y"} |-> asdict(s)[2][f]])))

\* Settings.save: path.write_text(json.dumps(asdict(self), indent=2)), complete
save(s) == Text(dumps(asdict(s)))

-----------------------------------------------------------------------------
(* DocumentConverter *)

\* _select_engine taking the forced engine without asking supports_format()
select_engine_anyformat(ext, forced_engine) ==
  LET user_engine == get_engine_for_extension(ext) IN
    IF /\ Truthy(forced_engine)
       /\ get(forced_engine) # None
       /\ is_available(get(forced_engine))
    THEN get(forced_engine)
    ELSE IF /\ Truthy(user_engine)
            /\ get(user_engine) # None
            /\ is_available(get(user_engine))
            /\ supports_format(get(user_engine), ext)
    THEN get(user_engine)
    ELSE get_for_extension(ext)

\* _select_engine taking the forced engine without asking is_available()
select_engine_unchecked(ext, forced_engine) ==
  LET user_engine == get_engine_for_extension(ext) IN
    IF /\ Truthy(forced_engine)
       /\ get(forced_engine) # None
       /\ supports_format(get(forced_engine), ext)
    THEN get(forced_engine)
    ELSE IF /\ Truthy(user_engine)
            /\ get(user_engine) # None
            /\ is_available(get(user_engine))
            /\ supports_format(get(user_engine), ext)
    THEN get(user_engine)
    ELSE get_for_extension(ext)

\* DocumentConverter._select_engine
select_engine(ext, forced_engine) ==
  LET user_engine == get_engine_for_extension(ext) IN
    IF /\ Truthy(forced_engine)
       /\ get(forced_engine) # None
       /\ is_available(get(forced_engine))
       /\ supports_format(get(forced_engine), ext)
    THEN get(forced_engine)
    ELSE IF /\ Truthy(user_engine)
            /\ get(user_engine) # None
            /\ is_available(get(user_engine))
            /\ supports_format(get(user_engine), ext)
    THEN get(user_engine)
    ELSE get_for_extension(ext)

-----------------------------------------------------------------------------
(* Paths: a path is a record of its final component `name`, a sequence of   *)
(* characters, and its `parent`, the sequence of directory components       *)

\* the directory components pathlib keeps of a str: "." components are dropped
PathParts(components) == SelectSeq(components, LAMBDA c : c # ".")

\* pathlib.Path(p) as used at converter.py:45 and :59
Path(p) == [name |-> p.name, parent |-> PathParts(p.parent)]

\* str.rfind("."), 1-based, 0 when there is no dot
RFindDot(name) ==
  IF \E i \in 1..Len(name) : name[i] = "."
  THEN CHOOSE i \in 1..Len(name) :
         name[i] = "." /\ \A j \in (i+1)..Len(name) : name[j] # "."
  ELSE 0

\* Path.suffix: the last dot and what follows it, unless that dot is the
\* first or the last character of the name
suffix(p) ==
  LET i == RFindDot(p.name) IN
    IF 1 < i /\ i < Len(p.name) THEN SubSeq(p.name, i, Len(p.name)) ELSE <<>>

\* Path.stem: the name without its suffix
stem(p) ==
  LET i == RFindDot(p.name) IN
    IF 1 < i /\ i < Len(p.name) THEN SubSeq(p.name, 1, i - 1) ELSE p.name

\* the extension computed at converter.py:51: input_path.suffix.lower().lstrip(".")
ExtensionOf(input_path) == LStripDots(Lower(suffix(input_path)))

\* _get_output_path using the configured folder whatever the output mode
get_output_path_anymode(input_path) ==
  LET output_name == stem(input_path) \o <<".">> \o Ext.md IN
    IF /\ settings.output_folder # Nothing
       /\ settings.output_folder[1] # <<>>
    THEN [name |-> output_name, parent |-> PathParts(settings.output_folder[1])]
    ELSE [name |-> output_name, parent |-> input_path.parent]

\* DocumentConverter._get_output_path
get_output_path(input_path) ==
  LET output_name == stem(input_path) \o <<".">> \o Ext.md IN
    IF /\ settings.output_mode = "folder"
       /\ settings.output_folder # Nothing
       /\ settings.output_folder[1] # <<>>
    THEN [name |-> output_name, parent |-> PathParts(settings.output_folder[1])]
    ELSE [name |-> output_name, parent |-> input_path.parent]

-----------------------------------------------------------------------------
(* ConversionResult and the engines' convert *)

\* base.ConversionResult(success, output_path=None, error=None, warnings=None)
ConversionResult(success, output_path, error, warnings) ==
  [success |-> success, output_path |-> output_path, error |-> error, warnings |-> warnings]

\* What the outside world does during one engine.convert call:
\*   "missing": the engine's library cannot be imported
\*   "gone":    the external tool stopped answering
\*   "raises":  the conversion raises an exception
\*   "ok":      the conversion succeeds
\*   "extra":   it succeeds and there is media / embedded images to report
Outcomes == {"missing", "gone", "raises", "ok", "extra"}

\* PandocEngine.convert reporting the output path also when the conversion raised
PandocConvert_partial(input_path, output_path, outcome) ==
  IF outcome = "missing"
  THEN [success |-> FALSE, output_path |-> Nothing,
        error |-> "pypandoc is not installed", warnings |-> Nothing]
  ELSE IF outcome = "gone"
  THEN [success |-> FALSE, output_path |-> Nothing,
        error |-> "Pandoc is not available", warnings |-> Nothing]
  ELSE IF outcome = "raises"
  THEN [success |-> FALSE, output_path |-> Some(output_path),
        error |-> "Pandoc conversion failed", warnings |-> Nothing]
  ELSE [success |-> TRUE, output_path |-> Some(output_path), error |-> None,
        warnings |-> IF outcome = "extra" THEN Some(<<"Media files extracted to">>)
                     ELSE Nothing]

\* PandocEngine.convert
PandocConvert(input_path, output_path, outcome) ==
  IF outcome = "missing"
  THEN ConversionResult(FALSE, Nothing, "pypandoc is not installed", Nothing)
  ELSE IF outcome = "gone"
  THEN ConversionResult(FALSE, Nothing, "Pandoc is not available", Nothing)
  ELSE IF outcome = "raises"
  THEN ConversionResult(FALSE, Nothing, "Pandoc conversion failed", Nothing)
  ELSE ConversionResult(TRUE, Some(output_path), None,
         IF outcome = "extra" THEN Some(<<"Media files extracted to">>) ELSE Nothing)

\* MarkItDownEngine.convert
MarkItDownConvert(input_path, output_path, outcome) ==
  IF outcome = "missing"
  THEN ConversionResult(FALSE, Nothing, "MarkItDown library is not installed", Nothing)
  ELSE IF outcome \in {"gone", "raises"}
  THEN ConversionResult(FALSE, Nothing, "MarkItDown conversion failed", Nothing)
  ELSE ConversionResult(TRUE, Some(output_path), None,
         IF /\ Lower(suffix(input_path)) \in {<<".">> \o Ext.docx, <<".">> \o Ext.pptx}
            /\ outcome = "extra"
         THEN Some(<<"Note: MarkItDown may not extract embedded images.">>)
         ELSE Nothing)

\* MockEngine.convert of tests/test_converter.py (also used for the other stand-ins)
MockConvert(input_path, output_path, outcome) ==
  IF outcome \in {"ok", "extra"}
  THEN ConversionResult(TRUE, Some(output_path), None, Nothing)
  ELSE ConversionResult(FALSE, Nothing, "Mock conversion failed", Nothing)

\* engine.convert(input_path, output_path), dispatched on the engine object
EngineConvert(engine, input_path, output_path, outcome) ==
  IF engine = "PandocEngine" THEN PandocConvert(input_path, output_path, outcome)
  ELSE IF engine = "MarkItDownEngine" THEN MarkItDownConvert(input_path, output_path, outcome)
  ELSE MockConvert(input_path, output_path, outcome)

\* one recorded call of an engine's convert and what it returned
Invocation(engine, input_path, output_path, returned) ==
  [engine |-> engine, input_path |-> input_path, output_path |-> output_path,
   returned |-> returned]

\* the input validation with the format check before the existence check
convert_validate_swapped(input_path, exists) ==
  IF ~is_supported_format(ExtensionOf(input_path))
  THEN "Unsupported file format"
  ELSE IF ~exists
  THEN "Input file not found"
  ELSE None

\* the input validation without the format check
convert_validate_noformat(input_path, exists) ==
  IF ~exists THEN "Input file not found" ELSE None

\* DocumentConverter.convert, "Validate input file" (converter.py:47-53):
\* the error it returns early, None when it goes on
convert_validate(input_path, exists) ==
  IF ~exists
  THEN "Input file not found"
  ELSE IF ~is_supported_format(ExtensionOf(input_path))
  THEN "Unsupported file format"
  ELSE None

\* DocumentConverter.convert, "Determine output path" (converter.py:55-59);
\* output_path_arg is Nothing (None) or Some(path)
convert_output_path(input_path, output_path_arg) ==
  IF output_path_arg = Nothing
  THEN get_output_path(input_path)
  ELSE Path(output_path_arg[1])

\* the conversion step using the first registered engine when none was selected
convert_perform_anyengine(engine, input_path, output_path, outcome) ==
  LET used == IF engine = None THEN engines[1] ELSE engine
      result == EngineConvert(used, input_path, output_path, outcome)
  IN  [result |-> result,
       invoked |-> <<Invocation(used, input_path, output_path, result)>>]

\* the conversion step calling the engine a second time after a reported failure
convert_perform_retry(engine, input_path, output_path, outcome) ==
  IF engine = None
  THEN [result |-> ConversionResult(FALSE, Nothing, "No available engine", Nothing),
        invoked |-> <<>>]
  ELSE LET result == EngineConvert(engine, input_path, output_path, outcome) IN
         [result |-> result,
          invoked |-> IF result.success
                      THEN <<Invocation(engine, input_path, output_path, result)>>
                      ELSE <<Invocation(engine, input_path, output_path, result),
                             Invocation(engine, input_path, output_path, result)>>]

\* DocumentConverter.convert, "Select engine" and "Perform conversion"
\* (converter.py:61-68), given the engine _select_engine returned
convert_perform(engine, input_path, output_path, outcome) ==
  IF engine = None
  THEN [result |-> ConversionResult(FALSE, Nothing, "No available engine", Nothing),
        invoked |-> <<>>]
  ELSE LET result == EngineConvert(engine, input_path, output_path, outcome) IN
         [result |-> result,
          invoked |-> <<Invocation(engine, input_path, output_path, result)>>]

\* DocumentConverter.convert: the result it returns and the engine calls it makes;
\* exists is what input_path.exists() answers
convert(input_path_arg, output_path_arg, engine_name, exists, outcome) ==
  LET input_path == Path(input_path_arg)
      error == convert_validate(input_path, exists)
  IN  IF error # None
      THEN [result |-> ConversionResult(FALSE, Nothing, error, Nothing), invoked |-> <<>>]
      ELSE convert_perform(select_engine(ExtensionOf(input_path), engine_name),
                           input_path,
                           convert_output_path(input_path, output_path_arg),
                           outcome)

-----------------------------------------------------------------------------
(* Inputs *)

\* input files that exist: /a/b/doc.docx, /a/./b/r.DOCX, /a/b/t.csv, /a/b/p.tex, /a/b/.docx
ExistingPaths ==
  { [name |-> <<"d","o","c",".","d","o","c","x">>, parent |-> <<"/", "a", "b">>],
    [name |-> <<"r",".","D","O","C","X">>, parent |-> <<"/", "a", ".", "b">>],
    [name |-> <<"t",".","c","s","v">>, parent |-> <<"/", "a", "b">>],
    [name |-> <<"p",".","t","e","x">>, parent |-> <<"/", "a", "b">>],
    [name |-> <<".","d","o","c","x">>, parent |-> <<"/", "a", "b">>] }

\* input files that do not exist: /nonexistent/file.docx, /nonexistent/file.xyz
MissingPaths ==
  { [name |-> <<"f","i","l","e",".","d","o","c","x">>, parent |-> <<"/", "nonexistent">>],
    [name |-> <<"f","i","l","e",".","x","y","z">>, parent |-> <<"/", "nonexistent">>] }

InputPaths == ExistingPaths \cup MissingPaths

\* one existing input file per extension of the policy table: /a/b/f.<ext>
PolicyFiles ==
  { [name |-> <<"f", ".">> \o x, parent |-> <<"/", "a", "b">>] : x \in SUPPORTED_FORMATS }

\* pathlib.Path.exists on the modelled file system
exists(p) == \E q \in ExistingPaths \cup PolicyFiles : Path(q) = Path(p)

\* output_path arguments: None, or the explicit path /tmp/./out.md
OutputArgs ==
  { Nothing,
    Some([name |-> <<"o","u","t",".","m","d">>, parent |-> <<"/", "tmp", ".">>]) }

\* engine_name arguments (forced engine ids)
ForcedNames == {None, "pandoc", "mockengine"}

\* extension spellings handed to the registry and to _select_engine
ExtArgs ==
  { Ext.docx, <<".","D","O","C","X">>, <<".",".","d","o","c","x">>,
    Ext.csv, Ext.tex, Ext.xyz }

\* the spellings handed to normalize_extension: "", ".", "DOCX", ".docx",
\* "DocX", ".PDF" and the registry's
NormalizeArgs ==
  ExtArgs \cup
  { <<>>, <<".">>, <<"D","O","C","X">>, <<".","d","o","c","x">>,
    <<"D","o","c","X">>, <<".","P","D","F">> }

\* the ids asked of registry.get
EngineIds == {"pandoc", "markitdown", "mockengine", "custom", "nonexistent"}

\* the (extension, engine id) pairs the user pins in the preferences
OverrideArgs ==
  { << <<".","D","O","C","X">>, "mockengine" >>,
    << Ext.docx, "pandoc" >>,
    << Ext.csv, "pandoc" >> }

\* output_folder values: None, "" and "/x/."
OutputFolders == { Nothing, Some(<<>>), Some(<<"/", "x", ".">>) }

\* window geometries (width, height, x, y): the defaults and restored ones
Geometries ==
  { <<700, 500, Nothing, Nothing>>,
    <<800, 600, Some(100), Some(200)>>,
    <<400, 300, Some(0), Some(-5)>> }

\* engine_overrides maps: none, one, two overrides
OverrideMaps ==
  { <<>>,
    [k \in {Ext.docx} |-> "markitdown"],
    [k \in {Ext.docx, Ext.csv} |-> IF k = Ext.docx THEN "mockengine" ELSE "pandoc"] }

\* Settings values: every output mode, no folder / "" / a folder, every
\* overrides map and geometry above
SettingsValues ==
  { [ output_mode |-> m, output_folder |-> f, engine_overrides |-> o,
      window_width |-> g[1], window_height |-> g[2], window_x |-> g[3], window_y |-> g[4] ] :
    m \in {"same", "folder", "ask"}, f \in {Nothing, Some(<<>>), Some(<<"/", "tmp", "output">>)},
    o \in OverrideMaps, g \in Geometries }

\* what the settings file can hold when load() runs
StoreContents ==
  { Absent, Unreadable, NotUtf8, NotJson,
    Partial(dumps(asdict(DefaultSettings))),
    Text(dumps(PyList(<<>>))),
    Text(dumps(PyInt(7))),
    Text(dumps(PyStr("settings"))),
    Text(dumps(PyNone)),
    Text(dumps(PyDict(<<>>))),
    Text(dumps(PyDict([output_mode |-> PyStr("folder")]))),
    Text(dumps(PyDict([unknown_field |-> PyStr("value")]))),
    Text(dumps(PyDict([output_mode |-> PyStr("folder"), unknown_field |-> PyStr("value")]))),
    Text(dumps(PyDict([output_mode |-> PyInt(5)]))),
    Text(dumps(PyDict([output_mode |-> PyStr("bogus")]))),
    Text(dumps(PyDict([engine_overrides |-> PyList(<<PyStr(Ext.docx)>>)]))),
    Text(dumps(PyDict([window_width |-> PyStr("wide")]))) }

\* output_mode values
OutputModes == {"same", "folder", "ask"}

-----------------------------------------------------------------------------
(* State machine *)

NoPath == [name |-> <<>>, parent |-> <<>>]

NoResult == ConversionResult(FALSE, Nothing, None, Nothing)

\* no load() has returned or raised
NoLoad == Returned(<<>>)

\* no call is in progress
NoCall ==
  [ ext |-> <<>>, engine |-> None, op |-> "none", value |-> <<>>,
    input_path |-> NoPath, output_path |-> Nothing,
    result |-> NoResult, invoked |-> <<>>, engine_name |-> None,
    saved |-> FALSE, original |-> DefaultSettings, loaded |-> NoLoad,
    previous |-> NoLoad, files |-> <<>>, prompts |-> 0, started |-> FALSE,
    earlier |-> Nothing ]

Range(seq) == { seq[i] : i \in 1..Len(seq) }

\* no ConversionWorker exists
NoWorker ==
  [ i |-> 0, files |-> <<>>, pc |-> "none", success_count |-> 0, fail_count |-> 0,
    calls |-> <<>> ]

\* DocumentConverter(settings) -> EngineRegistry() -> _register_default_engines;
\* whether the two external tools are installed is up to the environment
Init ==
  /\ engines = register(register(<<>>, "PandocEngine"), "MarkItDownEngine")
  /\ available \in [{"PandocEngine", "MarkItDownEngine"} -> BOOLEAN]
  /\ settings = DefaultSettings
  /\ disk = Absent
  /\ last = NoCall
  /\ window = [_worker |-> None, _ask_output_paths |-> <<>>, prefs_btn |-> TRUE]
  /\ worker = NoWorker
  /\ emitted = <<>>

\* registry.register(engine), the engine object answering is_available() = avail;
\* CustomEngine and PandocDouble hard-code is_available() = True
Register(engine, avail) ==
  /\ last = NoCall
  /\ engine \in {"CustomEngine", "PandocDouble"} => avail
  /\ engines' = register(engines, engine)
  /\ available' = [e \in Range(engines') |-> IF e = engine THEN avail ELSE available[e]]
  /\ last' = [NoCall EXCEPT !.op = "register", !.engine = engine]
  /\ UNCHANGED <<settings, disk>>
  /\ UNCHANGED gui

\* the environment changes what a registered engine's is_available() answers
SetAvailable(engine, avail) ==
  /\ last = NoCall
  /\ engine \in DOMAIN available
  /\ engine \notin {"CustomEngine", "PandocDouble"}
  /\ available[engine] # avail
  /\ available' = [available EXCEPT ![engine] = avail]
  /\ UNCHANGED <<engines, settings, disk, last>>
  /\ UNCHANGED gui

\* Settings.set_engine_for_extension
SetEngineForExtension(ext, engine) ==
  LET key == LStripDots(Lower(ext))
      new == [settings EXCEPT !.engine_overrides =
                [k \in DOMAIN settings.engine_overrides \cup {key} |->
                   IF k = key THEN engine ELSE settings.engine_overrides[k]]]
  IN  /\ last = NoCall
      /\ settings' = new
      /\ disk' = save(new)
      /\ last' = [NoCall EXCEPT !.op = "set_engine_for_extension", !.ext = ext,
                                !.engine_name = engine, !.saved = TRUE]
      /\ UNCHANGED <<engines, available>>
      /\ UNCHANGED gui

\* Settings.reset_engine_override
ResetEngineOverride(ext) ==
  LET key == LStripDots(Lower(ext))
      new == [settings EXCEPT !.engine_overrides =
                [k \in DOMAIN settings.engine_overrides \ {key} |->
                   settings.engine_overrides[k]]]
  IN  /\ last = NoCall
      /\ IF key \in DOMAIN settings.engine_overrides
         THEN settings' = new /\ disk' = save(new)
         ELSE UNCHANGED <<settings, disk>>
      /\ last' = [NoCall EXCEPT !.op = "reset_engine_override", !.ext = ext,
                                !.saved = (key \in DOMAIN settings.engine_overrides)]
      /\ UNCHANGED <<engines, available>>
      /\ UNCHANGED gui

\* Settings.reset_all_engine_overrides
ResetAllEngineOverrides ==
  LET new == [settings EXCEPT !.engine_overrides = <<>>] IN
    /\ last = NoCall
    /\ settings' = new
    /\ disk' = save(new)
    /\ last' = [NoCall EXCEPT !.op = "reset_all_engine_overrides", !.saved = TRUE]
    /\ UNCHANGED <<engines, available>>
    /\ UNCHANGED gui

\* mutant of SetOutputMode: the write is deferred
SetOutputMode_deferred(mode) ==
  /\ last = NoCall
  /\ settings' = [settings EXCEPT !.output_mode = mode]
  /\ last' = [NoCall EXCEPT !.op = "set_output_mode"]
  /\ UNCHANGED <<engines, available, disk>>
  /\ UNCHANGED gui

\* Settings.set_output_mode
SetOutputMode(mode) ==
  LET new == [settings EXCEPT !.output_mode = mode] IN
    /\ last = NoCall
    /\ settings' = new
    /\ disk' = save(new)
    /\ last' = [NoCall EXCEPT !.op = "set_output_mode", !.saved = TRUE]
    /\ UNCHANGED <<engines, available>>
    /\ UNCHANGED gui

\* Settings.set_output_folder
SetOutputFolder(folder) ==
  LET new == [settings EXCEPT !.output_folder = folder] IN
    /\ last = NoCall
    /\ settings' = new
    /\ disk' = save(new)
    /\ last' = [NoCall EXCEPT !.op = "set_output_folder", !.saved = TRUE]
    /\ UNCHANGED <<engines, available>>
    /\ UNCHANGED gui

\* a call of registry.get_for_extension(ext)
GetForExtension(ext) ==
  /\ last = NoCall
  /\ last' = [NoCall EXCEPT !.op = "get_for_extension", !.ext = ext,
                            !.engine = get_for_extension(ext)]
  /\ UNCHANGED <<engines, available, settings, disk>>
  /\ UNCHANGED gui

\* a call of file_mapping.normalize_extension(extension)
Normalize(extension) ==
  /\ last = NoCall
  /\ last' = [NoCall EXCEPT !.op = "normalize_extension", !.ext = extension,
                            !.value = normalize_extension(extension)]
  /\ UNCHANGED <<engines, available, settings, disk>>
  /\ UNCHANGED gui

\* a call of registry.get_available(); the caller may still hold the list an
\* earlier call returned
GetAvailable ==
  /\ last.op \in {"none", "get_available"}
  /\ last' = [NoCall EXCEPT !.op = "get_available", !.value = get_available,
                            !.earlier = IF last.op = "get_available"
                                        THEN Some(last.value) ELSE Nothing]
  /\ UNCHANGED <<engines, available, settings, disk>>
  /\ UNCHANGED gui

\* a tool is installed or removed while a caller holds the list that
\* get_available() returned
AvailabilityChanges(engine, avail) ==
  /\ last.op = "get_available"
  /\ engine \in DOMAIN available
  /\ engine \notin {"CustomEngine", "PandocDouble"}
  /\ available[engine] # avail
  /\ available' = [available EXCEPT ![engine] = avail]
  /\ UNCHANGED <<engines, settings, disk, last>>
  /\ UNCHANGED gui

\* a call of registry.get_engines_for_extension(ext)
GetEnginesForExtension(ext) ==
  /\ last = NoCall
  /\ last' = [NoCall EXCEPT !.op = "get_engines_for_extension", !.ext = ext,
                            !.value = get_engines_for_extension(ext)]
  /\ UNCHANGED <<engines, available, settings, disk>>
  /\ UNCHANGED gui

\* a call of registry.get(name)
Get(name) ==
  /\ last = NoCall
  /\ last' = [NoCall EXCEPT !.op = "get", !.engine_name = name, !.engine = get(name)]
  /\ UNCHANGED <<engines, available, settings, disk>>
  /\ UNCHANGED gui

\* a call of converter.get_available_engines()
GetAvailableEngines ==
  /\ last = NoCall
  /\ last' = [NoCall EXCEPT !.op = "get_available_engines", !.value = get_available_engines]
  /\ UNCHANGED <<engines, available, settings, disk>>
  /\ UNCHANGED gui

\* a call of converter._select_engine(ext, forced_engine)
SelectEngine(ext, forced_engine) ==
  /\ last = NoCall
  /\ last' = [NoCall EXCEPT !.op = "select_engine", !.ext = ext,
                            !.engine_name = forced_engine,
                            !.engine = select_engine(ext, forced_engine)]
  /\ UNCHANGED <<engines, available, settings, disk>>
  /\ UNCHANGED gui

\* a call of converter.convert(input_path, output_path, engine_name)
Convert(input_path, output_path, engine_name, outcome) ==
  LET c == convert(input_path, output_path, engine_name, exists(input_path), outcome) IN
    /\ last = NoCall
    /\ last' = [NoCall EXCEPT !.op = "convert", !.input_path = input_path,
                              !.output_path = output_path,
                              !.engine_name = engine_name,
                              !.result = c.result, !.invoked = c.invoked]
    /\ UNCHANGED <<engines, available, settings, disk>>
    /\ UNCHANGED gui

\* a direct call of engine.convert(input_path, output_path) on a built-in engine
CallEngineConvert(engine, input_path, output_path, outcome) ==
  /\ last = NoCall
  /\ last' = [NoCall EXCEPT !.op = "engine_convert", !.input_path = input_path,
                            !.output_path = Some(output_path),
                            !.engine = engine,
                            !.result = EngineConvert(engine, input_path, output_path, outcome),
                            !.invoked = <<Invocation(engine, input_path, output_path,
                                            EngineConvert(engine, input_path, output_path, outcome))>>]
  /\ UNCHANGED <<engines, available, settings, disk>>
  /\ UNCHANGED gui

\* the call returns to its caller
Return ==
  /\ last # NoCall
  /\ last.op # "closeEvent"
  /\ last' = NoCall
  /\ UNCHANGED <<engines, available, settings, disk>>
  /\ UNCHANGED gui

\* engine registration, availability, overrides and the facade's calls
Next ==
  \/ \E e \in EngineObjects, a \in BOOLEAN : Register(e, a)
  \/ \E e \in EngineObjects, a \in BOOLEAN : SetAvailable(e, a)
  \/ \E x \in OverrideArgs : SetEngineForExtension(x[1], x[2])
  \/ \E x \in OverrideArgs : ResetEngineOverride(x[1])
  \/ ResetAllEngineOverrides
  \/ \E x \in ExtArgs : GetForExtension(x)
  \/ \E x \in ExtArgs, n \in ForcedNames : SelectEngine(x, n)
  \/ \E p \in InputPaths, o \in OutputArgs, n \in ForcedNames,
        r \in Outcomes \ {"missing"} : Convert(p, o, n, r)
  \/ Return

Spec == Init /\ [][Next]_vars

\* the registry's and the policy table's queries
NextRegistry ==
  \/ \E e \in EngineObjects, a \in BOOLEAN : Register(e, a)
  \/ \E e \in EngineObjects, a \in BOOLEAN : SetAvailable(e, a)
  \/ \E e \in EngineObjects, a \in BOOLEAN : AvailabilityChanges(e, a)
  \/ \E x \in NormalizeArgs : Normalize(x)
  \/ \E n \in EngineIds : Get(n)
  \/ GetAvailable
  \/ \E x \in ExtArgs : GetForExtension(x)
  \/ \E x \in ExtArgs : GetEnginesForExtension(x)
  \/ GetAvailableEngines
  \/ Return

SpecRegistry == Init /\ [][NextRegistry]_vars

\* every extension of the policy table, resolved and converted
NextPolicy ==
  \/ \E e \in EngineObjects, a \in BOOLEAN : SetAvailable(e, a)
  \/ \E x \in SUPPORTED_FORMATS : GetForExtension(x)
  \/ \E p \in PolicyFiles, r \in {"raises", "ok"} : Convert(p, Nothing, None, r)
  \/ Return

SpecPolicy == Init /\ [][NextPolicy]_vars

\* the output-location preferences and the facade's calls
NextOutput ==
  \/ \E m \in OutputModes : SetOutputMode(m)
  \/ \E f \in OutputFolders : SetOutputFolder(f)
  \/ \E p \in InputPaths, o \in OutputArgs, r \in {"raises", "ok"} : Convert(p, o, None, r)
  \/ Return

SpecOutput == Init /\ [][NextOutput]_vars

\* direct calls of the built-in engines' convert
NextEngines ==
  \/ \E e \in {"PandocEngine", "MarkItDownEngine"}, p \in InputPaths, o \in OutputArgs \ {Nothing},
        r \in Outcomes : CallEngineConvert(e, Path(p), Path(o[1]), r)
  \/ \E p \in InputPaths, n \in ForcedNames, r \in Outcomes \ {"missing"} :
        Convert(p, Nothing, n, r)
  \/ Return

SpecEngines == Init /\ [][NextEngines]_vars

\* the settings file is replaced from outside the program (edited, damaged,
\* removed, made unreadable)
StoreBecomes(content) ==
  /\ last = NoCall
  /\ content # disk
  /\ disk' = content
  /\ UNCHANGED <<engines, available, settings, last>>
  /\ UNCHANGED gui

\* a call of Settings.load()
Load ==
  /\ last = NoCall
  /\ last' = [NoCall EXCEPT !.op = "load", !.loaded = load(disk)]
  /\ UNCHANGED <<engines, available, settings, disk>>
  /\ UNCHANGED gui

\* original = Settings(...); original.save(); loaded = Settings.load()
SaveAndLoad(original) ==
  /\ last = NoCall
  /\ disk' = save(original)
  /\ last' = [NoCall EXCEPT !.op = "save_and_load", !.saved = TRUE,
                            !.original = original, !.loaded = load(save(original))]
  /\ UNCHANGED <<engines, available, settings>>
  /\ UNCHANGED gui

\* set_output_mode(mode) up to the open(path, "w") inside path.write_text:
\* the field is assigned, save() has serialized the state, the file exists and
\* is empty
SetOutputModeOpens(mode) ==
  LET new == [settings EXCEPT !.output_mode = mode] IN
    /\ last = NoCall
    /\ settings' = new
    /\ disk' = Partial(dumps(asdict(new)))
    /\ last' = [NoCall EXCEPT !.op = "write_text", !.original = new,
                              !.previous = load(disk)]
    /\ UNCHANGED <<engines, available>>
    /\ UNCHANGED gui

\* set_output_folder(folder) up to the open(path, "w") inside path.write_text
SetOutputFolderOpens(folder) ==
  LET new == [settings EXCEPT !.output_folder = folder] IN
    /\ last = NoCall
    /\ settings' = new
    /\ disk' = Partial(dumps(asdict(new)))
    /\ last' = [NoCall EXCEPT !.op = "write_text", !.original = new,
                              !.previous = load(disk)]
    /\ UNCHANGED <<engines, available>>
    /\ UNCHANGED gui

\* path.write_text writes the text and closes the file; save() and the
\* setter return
WriteTextCompletes ==
  /\ last.op = "write_text"
  /\ disk' = Text(dumps(asdict(settings)))
  /\ last' = NoCall
  /\ UNCHANGED <<engines, available, settings>>
  /\ UNCHANGED gui

\* the process stops (killed, power loss), between two calls or inside
\* write_text; what is in memory is lost, the file stays as it is
ProcessStops ==
  /\ last.op \in {"none", "write_text"}
  /\ last' = IF last.op = "write_text"
             THEN [last EXCEPT !.op = "stopped"]
             ELSE [NoCall EXCEPT !.op = "stopped", !.original = settings,
                                 !.previous = load(disk)]
  /\ settings' = DefaultSettings
  /\ UNCHANGED <<engines, available, disk>>
  /\ UNCHANGED gui

\* the application is started again: MainWindow.__init__ calls Settings.load()
Restart ==
  /\ last.op = "stopped"
  /\ last' = [last EXCEPT !.op = "restarted", !.loaded = load(disk)]
  /\ settings' = SettingsOf(load(disk).value)
  /\ UNCHANGED <<engines, available, disk>>
  /\ UNCHANGED gui

\* a setter's save() step by step, the process stopping at any point
NextCrash ==
  \/ \E m \in OutputModes : SetOutputModeOpens(m)
  \/ \E f \in OutputFolders : SetOutputFolderOpens(f)
  \/ WriteTextCompletes
  \/ ProcessStops
  \/ Restart
  \/ Return

SpecCrash == Init /\ [][NextCrash]_vars

\* the five mutating setters of Settings
NextSetters ==
  \/ \E x \in OverrideArgs : SetEngineForExtension(x[1], x[2])
  \/ \E x \in OverrideArgs : ResetEngineOverride(x[1])
  \/ ResetAllEngineOverrides
  \/ \E m \in OutputModes : SetOutputMode(m)
  \/ \E f \in OutputFolders : SetOutputFolder(f)
  \/ Return

SpecSetters == Init /\ [][NextSetters]_vars

\* the settings file under load() and save()
NextStore ==
  \/ \E c \in StoreContents : StoreBecomes(c)
  \/ Load
  \/ \E s \in SettingsValues : SaveAndLoad(s)
  \/ Return

SpecStore == Init /\ [][NextStore]_vars

-----------------------------------------------------------------------------
(* MainWindow and ConversionWorker *)

\* the longest list of files dropped at once
MaxFiles == 2

\* the files of a drop: /a/b/doc.docx, which exists, and /nonexistent/file.docx
BatchPaths ==
  { [name |-> <<"d","o","c",".","d","o","c","x">>, parent |-> <<"/", "a", "b">>],
    [name |-> <<"f","i","l","e",".","d","o","c","x">>, parent |-> <<"/", "nonexistent">>] }

\* /locked/doc.docx: a file in a directory the process may not search, so
\* that input_path.exists() raises PermissionError in DocumentConverter.convert
LockedPath ==
  [name |-> <<"d","o","c",".","d","o","c","x">>, parent |-> <<"/", "locked">>]

\* Path.exists() raises instead of answering
stat_raises(p) == Path(p) = Path(LockedPath)

\* the non-empty lists DropZone emits with files_dropped
FileLists == UNION { [1..n -> BatchPaths] : n \in 1..MaxFiles }

\* the folder texts of the preferences dialog: empty, "/x/."
FolderTexts == { <<>>, <<"/", "x", ".">> }

\* the override combos of the preferences dialog: all Auto, or docx pinned
PreferenceOverrides == { <<>>, [k \in {Ext.docx} |-> "markitdown"] }

\* the path a save dialog proposes: the input's folder, stem + ".md"
default_path(file_path) ==
  [name |-> stem(Path(file_path)) \o <<".">> \o Ext.md, parent |-> Path(file_path).parent]

\* the path the user chooses in the save dialog: the proposed one or /tmp/out.md
save_path(file_path, other) ==
  IF other
  THEN [name |-> <<"o","u","t",".","m","d">>, parent |-> <<"/", "tmp">>]
  ELSE default_path(file_path)

\* what the save dialogs of one drop return, one answer per prompt
save_paths(files, answers) ==
  [ k \in 1..Len(files) |-> save_path(files[k], answers[k]) ]

\* the last prompt shown for a file of the drop
LastPrompt(files, f) ==
  CHOOSE k \in 1..Len(files) :
    files[k] = f /\ \A j \in (k + 1)..Len(files) : files[j] # f

\* _on_files_dropped's loop: self._ask_output_paths[file_path] = save_path for
\* each prompt in turn; a later prompt for the same path replaces the entry
ask_output_paths(files, answers) ==
  [ f \in Range(files) |-> save_paths(files, answers)[LastPrompt(files, f)] ]

\* the answers of a drop whose dialogs are all answered alike
SameAnswer(files, other) == [ k \in 1..Len(files) |-> other ]

\* _get_output_path ignoring the paths chosen in the dialogs
MainWindow_get_output_path_default(input_path) ==
  [name |-> stem(Path(input_path)) \o <<".">> \o Ext.md, parent |-> Path(input_path).parent]

\* MainWindow._get_output_path
MainWindow_get_output_path(input_path) ==
  LET input_file == Path(input_path)
      output_name == stem(input_file) \o <<".">> \o Ext.md
  IN  IF settings.output_mode = "ask"
      THEN IF input_path \in DOMAIN window._ask_output_paths
           THEN window._ask_output_paths[input_path]
           ELSE [name |-> output_name, parent |-> input_file.parent]
      ELSE IF /\ settings.output_mode = "folder"
              /\ settings.output_folder # Nothing
              /\ settings.output_folder[1] # <<>>
           THEN [name |-> output_name, parent |-> PathParts(settings.output_folder[1])]
           ELSE [name |-> output_name, parent |-> input_file.parent]

\* mutant of OnFilesDropped: a drop is handled although a worker exists
OnFilesDropped_unguarded(files, cancel_at, answers) ==
  LET ask == settings.output_mode = "ask"
      cancelled == ask /\ cancel_at # 0
  IN  /\ last = NoCall
      /\ ~ask => (cancel_at = 0 /\ \A k \in 1..Len(files) : ~answers[k])
      /\ IF cancelled
         THEN /\ window' = [window EXCEPT !._ask_output_paths = <<>>]
              /\ last' = [NoCall EXCEPT !.op = "files_dropped", !.files = files,
                                        !.prompts = cancel_at]
              /\ UNCHANGED <<worker, emitted>>
         ELSE /\ window' = [ _worker |-> "ConversionWorker",
                             _ask_output_paths |->
                               IF ask THEN ask_output_paths(files, answers)
                               ELSE <<>>,
                             prefs_btn |-> FALSE ]
              /\ worker' = [NoWorker EXCEPT !.files = files, !.pc = "loop"]
              /\ emitted' = <<>>
              /\ last' = [NoCall EXCEPT !.op = "files_dropped", !.files = files,
                                        !.value = IF ask THEN save_paths(files, answers)
                                                  ELSE <<>>,
                                        !.prompts = IF ask THEN Len(files) ELSE 0,
                                        !.started = TRUE]
      /\ UNCHANGED <<engines, available, settings, disk>>

\* MainWindow._on_files_dropped followed by _start_conversion.  In "ask" mode
\* the user answers the save dialogs in turn: cancel_at = 0 answers all of
\* them, cancel_at = k cancels the k-th; answers[k] tells whether the k-th
\* answer is a path other than the proposed one.  The record of the call keeps
\* the dialogs' answers in `value`
OnFilesDropped(files, cancel_at, answers) ==
  LET busy == window._worker # None
      ask == settings.output_mode = "ask"
      cancelled == ask /\ cancel_at # 0
  IN  /\ last = NoCall
      /\ (busy \/ ~ask) => (cancel_at = 0 /\ \A k \in 1..Len(files) : ~answers[k])
      /\ IF busy
         THEN /\ last' = [NoCall EXCEPT !.op = "files_dropped", !.files = files]
              /\ UNCHANGED gui
         ELSE IF cancelled
         THEN /\ window' = [window EXCEPT !._ask_output_paths = <<>>]
              /\ last' = [NoCall EXCEPT !.op = "files_dropped", !.files = files,
                                        !.prompts = cancel_at]
              /\ UNCHANGED <<worker, emitted>>
         ELSE IF files = <<>>
         THEN /\ window' = [window EXCEPT !._ask_output_paths = <<>>]
              /\ last' = [NoCall EXCEPT !.op = "files_dropped", !.files = files]
              /\ UNCHANGED <<worker, emitted>>
         ELSE /\ window' = [ _worker |-> "ConversionWorker",
                             _ask_output_paths |->
                               IF ask THEN ask_output_paths(files, answers)
                               ELSE <<>>,
                             prefs_btn |-> FALSE ]
              /\ worker' = [NoWorker EXCEPT !.files = files, !.pc = "loop"]
              /\ emitted' = <<>>
              /\ last' = [NoCall EXCEPT !.op = "files_dropped", !.files = files,
                                        !.value = IF ask THEN save_paths(files, answers)
                                                  ELSE <<>>,
                                        !.prompts = IF ask THEN Len(files) ELSE 0,
                                        !.started = TRUE]
      /\ UNCHANGED <<engines, available, settings, disk>>

\* mutant of WorkerEmitsProgress: the position is reported from 0
WorkerEmitsProgress_zero ==
  /\ worker.pc = "loop"
  /\ worker.i < Len(worker.files)
  /\ emitted' = Append(emitted, <<"progress", worker.i, Len(worker.files),
                                  Path(worker.files[worker.i + 1]).name>>)
  /\ worker' = [worker EXCEPT !.pc = "convert"]
  /\ UNCHANGED <<engines, available, settings, disk, last, window>>

\* run, top of the loop body: self.progress.emit(i + 1, total, filename)
WorkerEmitsProgress ==
  /\ worker.pc = "loop"
  /\ worker.i < Len(worker.files)
  /\ emitted' = Append(emitted, <<"progress", worker.i + 1, Len(worker.files),
                                  Path(worker.files[worker.i + 1]).name>>)
  /\ worker' = [worker EXCEPT !.pc = "convert"]
  /\ UNCHANGED <<engines, available, settings, disk, last, window>>

\* run: output_path = self.output_func(file_path);
\* result = self.converter.convert(file_path, output_path)
WorkerConverts(outcome) ==
  LET file_path == worker.files[worker.i + 1]
      output_path == MainWindow_get_output_path(file_path)
      c == convert(file_path, Some(output_path), None, exists(file_path), outcome)
  IN  /\ worker.pc = "convert"
      /\ ~stat_raises(file_path)
      /\ worker' = [worker EXCEPT !.pc = "report",
                                  !.calls = Append(@, [input_path |-> file_path,
                                                       output_path |-> output_path,
                                                       result |-> c.result])]
      /\ UNCHANGED <<engines, available, settings, disk, last, window, emitted>>

\* run: an exception leaves self.converter.convert(file_path, output_path);
\* run has no handler, the exception ends the thread and nothing after the
\* call is executed
WorkerRaises ==
  /\ worker.pc = "convert"
  /\ stat_raises(worker.files[worker.i + 1])
  /\ worker' = [worker EXCEPT !.pc = "died"]
  /\ UNCHANGED <<engines, available, settings, disk, last, window, emitted>>

\* mutant of WorkerReports: the batch is given up at the first failure
WorkerReports_abort ==
  LET file_path == worker.files[worker.i + 1]
      result == worker.calls[Len(worker.calls)].result
  IN  /\ worker.pc = "report"
      /\ IF result.success
         THEN /\ worker' = [worker EXCEPT !.pc = "loop", !.i = @ + 1,
                                          !.success_count = @ + 1]
              /\ emitted' = Append(emitted, <<"file_completed", file_path, TRUE,
                                              result.output_path[1]>>)
         ELSE /\ worker' = [worker EXCEPT !.pc = "loop", !.i = Len(worker.files),
                                          !.fail_count = @ + 1]
              /\ emitted' = Append(emitted, <<"file_completed", file_path, FALSE,
                                              IF Truthy(result.error) THEN result.error
                                              ELSE "Unknown error">>)
      /\ UNCHANGED <<engines, available, settings, disk, last, window>>

\* mutant of WorkerReports: a failed file is not counted
WorkerReports_uncounted ==
  LET file_path == worker.files[worker.i + 1]
      result == worker.calls[Len(worker.calls)].result
  IN  /\ worker.pc = "report"
      /\ IF result.success
         THEN /\ worker' = [worker EXCEPT !.pc = "loop", !.i = @ + 1,
                                          !.success_count = @ + 1]
              /\ emitted' = Append(emitted, <<"file_completed", file_path, TRUE,
                                              result.output_path[1]>>)
         ELSE /\ worker' = [worker EXCEPT !.pc = "loop", !.i = @ + 1]
              /\ emitted' = Append(emitted, <<"file_completed", file_path, FALSE,
                                              IF Truthy(result.error) THEN result.error
                                              ELSE "Unknown error">>)
      /\ UNCHANGED <<engines, available, settings, disk, last, window>>

\* run, end of the loop body: count the result and emit file_completed
WorkerReports ==
  LET file_path == worker.files[worker.i + 1]
      result == worker.calls[Len(worker.calls)].result
  IN  /\ worker.pc = "report"
      /\ IF result.success
         THEN /\ worker' = [worker EXCEPT !.pc = "loop", !.i = @ + 1,
                                          !.success_count = @ + 1]
              /\ emitted' = Append(emitted, <<"file_completed", file_path, TRUE,
                                              result.output_path[1]>>)
         ELSE /\ worker' = [worker EXCEPT !.pc = "loop", !.i = @ + 1,
                                          !.fail_count = @ + 1]
              /\ emitted' = Append(emitted, <<"file_completed", file_path, FALSE,
                                              IF Truthy(result.error) THEN result.error
                                              ELSE "Unknown error">>)
      /\ UNCHANGED <<engines, available, settings, disk, last, window>>

\* run, after the loop: sleep up to MIN_DURATION, then
\* self.conversion_done.emit(success_count, fail_count); the thread ends
WorkerFinishes ==
  /\ worker.pc = "loop"
  /\ worker.i = Len(worker.files)
  /\ emitted' = Append(emitted, <<"conversion_done", worker.success_count,
                                  worker.fail_count>>)
  /\ worker' = [worker EXCEPT !.pc = "finished"]
  /\ UNCHANGED <<engines, available, settings, disk, last, window>>

\* MainWindow._on_conversion_done, run by the main thread for the queued
\* conversion_done signal
OnConversionDone ==
  /\ last = NoCall
  /\ worker.pc = "finished"
  /\ window' = [window EXCEPT !._worker = None, !.prefs_btn = TRUE]
  /\ worker' = NoWorker
  /\ UNCHANGED <<engines, available, settings, disk, last, emitted>>

\* MainWindow._show_preferences with the dialog closed by Save
\* (PreferencesDialog._save_and_close); the converter is built anew
AcceptPreferences(mode, folder_text, overrides) ==
  LET new == [settings EXCEPT !.output_mode = mode,
                              !.output_folder = IF folder_text # <<>>
                                                THEN Some(folder_text) ELSE Nothing,
                              !.engine_overrides = overrides]
  IN  /\ last = NoCall
      /\ window.prefs_btn
      /\ \A k \in DOMAIN overrides :
            \E e \in Range(get_engines_for_extension(k)) : EngineName[e] = overrides[k]
      /\ settings' = new
      /\ disk' = save(new)
      /\ engines' = register(register(<<>>, "PandocEngine"), "MarkItDownEngine")
      /\ last' = [NoCall EXCEPT !.op = "preferences", !.saved = TRUE]
      /\ UNCHANGED <<available, window, worker, emitted>>

\* MainWindow.closeEvent: the window geometry is stored in the Settings and
\* saved, whether or not a worker exists; the window closes and no handler
\* runs after it
CloseEvent(geometry) ==
  LET new == [settings EXCEPT !.window_width = geometry[1],
                              !.window_height = geometry[2],
                              !.window_x = geometry[3],
                              !.window_y = geometry[4]]
  IN  /\ last = NoCall
      /\ settings' = new
      /\ disk' = save(new)
      /\ last' = [NoCall EXCEPT !.op = "closeEvent", !.saved = TRUE]
      /\ UNCHANGED <<engines, available>>
      /\ UNCHANGED gui

\* the geometries the window has when it is closed: resized and moved, or as
\* it was opened
ClosedGeometries ==
  { <<700, 500, Some(0), Some(0)>>,
    <<800, 600, Some(100), Some(200)>> }

\* a batch and the foreground handlers that write the Settings
NextClose ==
  \/ \E f \in FileLists : OnFilesDropped(f, 0, SameAnswer(f, FALSE))
  \/ WorkerEmitsProgress
  \/ \E r \in {"raises", "ok"} : WorkerConverts(r)
  \/ WorkerReports
  \/ WorkerFinishes
  \/ OnConversionDone
  \/ \E m \in OutputModes : AcceptPreferences(m, <<>>, <<>>)
  \/ \E g \in ClosedGeometries : CloseEvent(g)
  \/ Return

SpecClose == Init /\ [][NextClose]_vars

\* drops, the worker thread and the preferences dialog
NextBatch ==
  \/ \E f \in FileLists, c \in 0..MaxFiles, o \in BOOLEAN :
        c <= Len(f) /\ OnFilesDropped(f, c, SameAnswer(f, o))
  \/ WorkerEmitsProgress
  \/ \E r \in {"raises", "ok"} : WorkerConverts(r)
  \/ WorkerReports
  \/ WorkerFinishes
  \/ OnConversionDone
  \/ \E m \in OutputModes, f \in FolderTexts, o \in PreferenceOverrides :
        AcceptPreferences(m, f, o)
  \/ Return

SpecBatch == Init /\ [][NextBatch]_vars

\* the drops that may contain a file whose conversion raises
AbnormalFileLists == UNION { [1..n -> BatchPaths \cup {LockedPath}] : n \in 1..MaxFiles }

\* the steps of the worker thread
WorkerStep ==
  \/ WorkerEmitsProgress
  \/ \E r \in {"raises", "ok"} : WorkerConverts(r)
  \/ WorkerRaises
  \/ WorkerReports
  \/ WorkerFinishes

\* batches in which a conversion may fail abnormally
NextAbnormal ==
  \/ \E f \in AbnormalFileLists : OnFilesDropped(f, 0, SameAnswer(f, FALSE))
  \/ WorkerStep
  \/ OnConversionDone
  \/ Return

\* a started thread keeps running and the main thread's event loop delivers
\* the queued conversion_done signal
SpecAbnormal ==
  /\ Init
  /\ [][NextAbnormal]_vars
  /\ WF_vars(WorkerStep)
  /\ WF_vars(OnConversionDone)
  /\ WF_vars(Return)

\* drops whose save dialogs are answered one by one
NextAsk ==
  \/ \E f \in FileLists, c \in 0..MaxFiles, a \in [1..MaxFiles -> BOOLEAN] :
        c <= Len(f) /\ OnFilesDropped(f, c, [k \in 1..Len(f) |-> a[k]])
  \/ WorkerEmitsProgress
  \/ \E r \in {"raises", "ok"} : WorkerConverts(r)
  \/ WorkerReports
  \/ WorkerFinishes
  \/ OnConversionDone
  \/ \E m \in OutputModes : AcceptPreferences(m, <<>>, <<>>)
  \/ Return

SpecAsk == Init /\ [][NextAsk]_vars

-----------------------------------------------------------------------------
(* Properties *)

\* C1: _select_engine returns the forced engine if it is registered, available
\* and declares support for the extension; otherwise the engine of the stored
\* override for the extension under the same three conditions; otherwise
\* exactly what get_for_extension returns.  A forced or overridden engine that
\* fails a condition is skipped without error.
C1_SelectEnginePriority ==
  last.op = "select_engine" =>
    LET key == normalize_extension(last.ext)
        Registered(n) == \E e \in Range(engines) : EngineName[e] = n
        EngineOf(n) == CHOOSE e \in Range(engines) : EngineName[e] = n
        Qualifies(n) ==
          /\ n # None
          /\ Registered(n)
          /\ available[EngineOf(n)]
          /\ key \in supported_formats[EngineOf(n)]
        forced == last.engine_name
        override == IF key \in DOMAIN settings.engine_overrides
                    THEN settings.engine_overrides[key]
                    ELSE None
    IN  last.engine = IF Qualifies(forced) THEN EngineOf(forced)
                      ELSE IF Qualifies(override) THEN EngineOf(override)
                      ELSE get_for_extension(last.ext)

\* C1 witness: the forced engine (pandoc) is registered but unavailable, the
\* override for docx (mockengine) qualifies and is returned, although the
\* registry alone would have answered markitdown
C1_Witness ==
  /\ last.op = "select_engine"
  /\ last.engine_name = "pandoc"
  /\ normalize_extension(last.ext) = Ext.docx
  /\ "PandocEngine" \in Range(engines)
  /\ ~available["PandocEngine"]
  /\ Ext.docx \in DOMAIN settings.engine_overrides
  /\ settings.engine_overrides[Ext.docx] = "mockengine"
  /\ last.engine = "MockEngine"
  /\ get_for_extension(last.ext) = "MarkItDownEngine"

\* C2: get_for_extension(ext) normalizes ext and returns the first that
\* qualifies (registered, available, declares support) of: the policy default
\* engine, the policy fallback engine, the engines in registration (dict) order;
\* None if none qualifies.  With pandoc registered but unavailable and
\* markitdown registered and available, docx resolves to markitdown.
C2_GetForExtensionOrder ==
  last.op = "get_for_extension" =>
    LET key == LStripDots(Lower(last.ext))
        Ok(e) == available[e] /\ key \in supported_formats[e]
        Named(n) == { e \in Range(engines) : EngineName[e] = n /\ Ok(e) }
        policy == IF key \in DOMAIN DEFAULT_ENGINE_MAPPING
                  THEN DEFAULT_ENGINE_MAPPING[key]
                  ELSE <<None, None>>
        hits == { i \in 1..Len(engines) : Ok(engines[i]) }
    IN  /\ IF Named(policy[1]) # {} THEN last.engine \in Named(policy[1])
           ELSE IF Named(policy[2]) # {} THEN last.engine \in Named(policy[2])
           ELSE IF hits # {}
                THEN last.engine = engines[CHOOSE i \in hits : \A j \in hits : i <= j]
                ELSE last.engine = None
        /\ ( /\ key = Ext.docx
             /\ \E e \in Range(engines) : EngineName[e] = "pandoc" /\ ~available[e]
             /\ \E e \in Range(engines) : EngineName[e] = "markitdown" /\ Ok(e) )
           => EngineName[last.engine] = "markitdown"

\* C2 witness: get_for_extension(".DOCX") with pandoc registered-unavailable
\* and markitdown registered-available answered markitdown
C2_Witness ==
  /\ last.op = "get_for_extension"
  /\ last.ext = <<".","D","O","C","X">>
  /\ "PandocEngine" \in Range(engines)
  /\ ~available["PandocEngine"]
  /\ "MarkItDownEngine" \in Range(engines)
  /\ available["MarkItDownEngine"]
  /\ last.engine = "MarkItDownEngine"

\* C3: in every state reached by register calls and availability changes, for
\* every extension of the policy table get_for_extension returns None or an
\* engine that is registered, available and declares support for it
C3_GetForExtensionSupports ==
  \A ext \in SUPPORTED_FORMATS :
    LET e == get_for_extension(ext) IN
      \/ e = None
      \/ /\ e \in Range(engines)
         /\ available[e]
         /\ ext \in supported_formats[e]

\* C3 witness: the engine registered as "pandoc" is available but declares no
\* support for docx (policy default pandoc); the call skipped it and answered
\* markitdown
C3_Witness ==
  /\ last.op = "get_for_extension"
  /\ normalize_extension(last.ext) = Ext.docx
  /\ "PandocDouble" \in Range(engines)
  /\ available["PandocDouble"]
  /\ last.engine = "MarkItDownEngine"

\* C4: in convert, a forced engine that does not declare support for the
\* input's extension is never invoked; the engine used, if any, is the one the
\* override/default chain selects
C4_ForcedUnsupportedNeverInvoked ==
  last.op = "convert" =>
    LET ext == ExtensionOf(Path(last.input_path)) IN
      \A f \in Range(engines) :
        (EngineName[f] = last.engine_name /\ ext \notin supported_formats[f]) =>
          \A i \in 1..Len(last.invoked) :
            /\ last.invoked[i].engine # f
            /\ last.invoked[i].engine = select_engine(ext, None)

\* C4 witness: convert of t.csv forcing mockengine (registered, available, no
\* csv support) invoked markitdown
C4_Witness ==
  /\ last.op = "convert"
  /\ last.engine_name = "mockengine"
  /\ ExtensionOf(Path(last.input_path)) = Ext.csv
  /\ "MockEngine" \in Range(engines)
  /\ available["MockEngine"]
  /\ Len(last.invoked) = 1
  /\ last.invoked[1].engine = "MarkItDownEngine"

\* C5: convert on an input path that does not exist returns success=false with
\* the 'not found' error and invokes no engine, whatever the extension, the
\* forced engine, the overrides and the registered engines
C5_MissingInputNotFound ==
  (last.op = "convert" /\ ~exists(last.input_path)) =>
    /\ last.result.success = FALSE
    /\ last.result.error = "Input file not found"
    /\ last.invoked = <<>>

\* C5 witness: a missing .xyz file, pandoc forced, registered and available
C5_Witness ==
  /\ last.op = "convert"
  /\ ~exists(last.input_path)
  /\ ExtensionOf(Path(last.input_path)) = Ext.xyz
  /\ last.engine_name = "pandoc"
  /\ "PandocEngine" \in Range(engines)
  /\ available["PandocEngine"]
  /\ last.result.error = "Input file not found"

\* C6: convert on an existing input whose normalized extension is not a key of
\* the policy table returns success=false with the 'unsupported format' error
\* and invokes no engine, even when a registered, available engine supports it
C6_UnsupportedFormat ==
  ( /\ last.op = "convert"
    /\ exists(last.input_path)
    /\ ExtensionOf(Path(last.input_path)) \notin DOMAIN DEFAULT_ENGINE_MAPPING ) =>
    /\ last.result.success = FALSE
    /\ last.result.error = "Unsupported file format"
    /\ last.invoked = <<>>

\* C6 witness: p.tex exists, pandoc is forced, registered, available and
\* declares tex; the result is 'unsupported format'
C6_Witness ==
  /\ last.op = "convert"
  /\ exists(last.input_path)
  /\ ExtensionOf(Path(last.input_path)) = Ext.tex
  /\ last.engine_name = "pandoc"
  /\ "PandocEngine" \in Range(engines)
  /\ available["PandocEngine"]
  /\ last.result.error = "Unsupported file format"

\* C7: for an existing input with an extension of the policy table, convert
\* returns the 'no available engine' failure if and only if engine selection
\* yields no engine, and then no engine is invoked
C7_NoEngineIffNoneSelected ==
  ( /\ last.op = "convert"
    /\ exists(last.input_path)
    /\ ExtensionOf(Path(last.input_path)) \in DOMAIN DEFAULT_ENGINE_MAPPING ) =>
    LET none == select_engine(ExtensionOf(Path(last.input_path)), last.engine_name) = None IN
      /\ (last.result.error = "No available engine") <=> none
      /\ none => (last.invoked = <<>> /\ last.result.success = FALSE)

\* C7 witness: r.DOCX exists, no registered engine is available, the result is
\* 'no available engine'
C7_Witness ==
  /\ last.op = "convert"
  /\ exists(last.input_path)
  /\ ExtensionOf(Path(last.input_path)) = Ext.docx
  /\ \A e \in Range(engines) : ~available[e]
  /\ last.result.error = "No available engine"
  /\ last.invoked = <<>>

\* C8: when an engine is selected, convert invokes that engine's convert
\* exactly once and returns what it returned, unchanged
C8_DelegatesOnceUnchanged ==
  last.op = "convert" =>
    LET input_path == Path(last.input_path)
        engine == select_engine(ExtensionOf(input_path), last.engine_name)
    IN  /\ Len(last.invoked) <= 1
        /\ ( /\ exists(last.input_path)
             /\ ExtensionOf(input_path) \in DOMAIN DEFAULT_ENGINE_MAPPING
             /\ engine # None ) =>
             /\ Len(last.invoked) = 1
             /\ last.invoked[1].engine = engine
             /\ last.invoked[1].input_path = input_path
             /\ last.result = last.invoked[1].returned

\* C8 witness: the selected engine reported a failure; it was called once and
\* the failure is what convert returned
C8_Witness ==
  /\ last.op = "convert"
  /\ Len(last.invoked) = 1
  /\ last.invoked[1].engine = "PandocEngine"
  /\ last.invoked[1].returned.success = FALSE
  /\ last.result.success = FALSE
  /\ last.result.error = "Pandoc conversion failed"

\* C9: the output path handed to the engine is the explicit output_path when
\* one is supplied (as the Path built from it); otherwise <input stem>.md in the
\* configured folder when output_mode is 'folder' and a (non-empty) folder is
\* set, and in the input's parent directory in every other case, 'ask' included
C9_OutputPath ==
  (last.op = "convert" /\ last.invoked # <<>>) =>
    LET input_path == Path(last.input_path)
        handed == last.invoked[1].output_path
        name == stem(input_path) \o <<".","m","d">>
    IN  /\ IF last.output_path # Nothing
           THEN handed = Path(last.output_path[1])
           ELSE IF /\ settings.output_mode = "folder"
                   /\ settings.output_folder \notin {Nothing, Some(<<>>)}
           THEN handed = [name |-> name, parent |-> PathParts(settings.output_folder[1])]
           ELSE handed = [name |-> name, parent |-> input_path.parent]
        /\ ( /\ last.output_path = Nothing
             /\ input_path = [name |-> <<"d","o","c",".","d","o","c","x">>,
                              parent |-> <<"/", "a", "b">>] ) =>
             handed = [name |-> <<"d","o","c",".","m","d">>,
                       parent |-> IF /\ settings.output_mode = "folder"
                                     /\ settings.output_folder = Some(<<"/", "x", ".">>)
                                  THEN <<"/", "x">>
                                  ELSE <<"/", "a", "b">>]

\* C9 witness: output_mode 'ask' with a folder configured and no explicit
\* output_path: the engine was handed /a/b/doc.md
C9_Witness ==
  /\ last.op = "convert"
  /\ settings.output_mode = "ask"
  /\ settings.output_folder = Some(<<"/", "x", ".">>)
  /\ last.output_path = Nothing
  /\ Len(last.invoked) = 1
  /\ last.invoked[1].output_path =
       [name |-> <<"d","o","c",".","m","d">>, parent |-> <<"/", "a", "b">>]

\* C10: every ConversionResult of convert's own error paths and of every
\* return path of the built-in engines has, when success, an output_path and
\* no error, and when not success, an error and no output_path
C10_ResultShape ==
  last.op \in {"convert", "engine_convert"} =>
    LET r == last.result IN
      /\ r.success => (r.output_path # Nothing /\ r.error = None)
      /\ ~r.success => (r.error \notin {None, ""} /\ r.output_path = Nothing)

\* C10 witness: PandocEngine.convert raised inside the conversion and returned
\* a failure carrying an error and no output path
C10_Witness ==
  /\ last.op = "engine_convert"
  /\ last.engine = "PandocEngine"
  /\ last.result.success = FALSE
  /\ last.result.error = "Pandoc conversion failed"
  /\ last.result.output_path = Nothing

\* the Settings object every field of which is the dataclass default
DefaultsObject ==
  [ output_mode |-> PyStr("same"),
    output_folder |-> PyNone,
    engine_overrides |-> PyDict(<<>>),
    window_width |-> PyInt(700),
    window_height |-> PyInt(500),
    window_x |-> PyNone,
    window_y |-> PyNone ]

\* C15: for every Settings value (any output mode, any output folder string
\* or None, any overrides map, any window geometry) save() followed by load()
\* returns a Settings equal to the original in every field
C15_SaveLoadRoundTrip ==
  last.op = "save_and_load" =>
    /\ last.loaded.raised = None
    /\ DOMAIN last.loaded.value = FieldNames
    /\ \A f \in FieldNames : last.loaded.value[f] = SettingsObject(last.original)[f]

\* C15 witness: the Settings of test_save_and_load_roundtrip-like shape, no
\* field at its default, came back from the file
C15_Witness ==
  /\ last.op = "save_and_load"
  /\ last.original.output_mode = "folder"
  /\ last.original.output_folder = Some(<<"/", "tmp", "output">>)
  /\ last.original.engine_overrides = [k \in {Ext.docx} |-> "markitdown"]
  /\ last.original.window_width = 800
  /\ last.original.window_y = Some(200)
  /\ last.loaded.value.output_folder = PyStr(<<"/", "tmp", "output">>)
  /\ last.loaded.value.window_y = PyInt(200)
  /\ disk = save(last.original)

\* the file holds a JSON object with a top-level key that names no field
HasUnknownField(file) ==
  /\ file[1] = "text"
  /\ file[2][1] = "object"
  /\ ~(DOMAIN file[2][2] \subseteq FieldNames)

\* C16: load() on a file that holds invalid JSON, or a JSON object with at
\* least one unrecognized top-level field (even next to recognized ones),
\* returns exactly the default Settings; nothing of the file is merged in
C16_InvalidOrUnknownGivesDefaults ==
  (last.op = "load" /\ (disk = NotJson \/ disk[1] = "partial" \/ HasUnknownField(disk))) =>
    last.loaded = Returned(DefaultsObject)

\* C16 witness: the file held {"output_mode": "folder", "unknown_field":
\* "value"} and load() answered output_mode "same"
C16_Witness ==
  /\ last.op = "load"
  /\ HasUnknownField(disk)
  /\ "output_mode" \in DOMAIN disk[2][2]
  /\ disk[2][2].output_mode = <<"string", "folder">>
  /\ last.loaded.raised = None
  /\ last.loaded.value.output_mode = PyStr("same")

\* the value has the type the dataclass declares for the field
Declared(f, v) ==
  CASE f = "output_mode" -> v \in {PyStr("same"), PyStr("folder"), PyStr("ask")}
    [] f = "output_folder" -> v[1] \in {"NoneType", "str"}
    [] f = "engine_overrides" -> v[1] = "dict"
    [] f \in {"window_width", "window_height"} -> v[1] = "int"
    [] f \in {"window_x", "window_y"} -> v[1] \in {"NoneType", "int"}

\* the file holds a JSON object of recognized fields only, one of them with a
\* value of the wrong type or shape
HasWrongType(file) ==
  /\ file[1] = "text"
  /\ file[2][1] = "object"
  /\ DOMAIN file[2][2] \subseteq FieldNames
  /\ \E f \in DOMAIN file[2][2] : ~Declared(f, loads(file[2][2][f]))

\* C17: load() on a JSON object whose fields are all recognized but where
\* some value has the wrong type or shape discards the whole file and returns
\* exactly the default Settings
C17_WrongTypeGivesDefaults ==
  (last.op = "load" /\ HasWrongType(disk)) => last.loaded = Returned(DefaultsObject)

\* the file content can be decoded into a Settings
Decodable(file) ==
  /\ file[1] = "text"
  /\ file[2][1] = "object"
  /\ DOMAIN file[2][2] \subseteq FieldNames

\* C18: load() never propagates an error: whatever the settings file is
\* (missing, unreadable, not UTF-8, invalid JSON, JSON that is not an object,
\* object with unknown fields) it returns a Settings, the defaults whenever
\* the content cannot be decoded
C18_LoadNeverRaises ==
  last.op = "load" =>
    /\ last.loaded.raised = None
    /\ ~Decodable(disk) => last.loaded.value = DefaultsObject

\* the names the five mutating setters are recorded under
SetterOps ==
  { "set_engine_for_extension", "reset_engine_override", "reset_all_engine_overrides",
    "set_output_mode", "set_output_folder" }

\* C19 as stated: every call to one of the five mutating setters writes the
\* complete in-memory state to the settings file before it returns
C19_EverySetterCallSaves ==
  last.op \in SetterOps => (last.saved /\ disk = Text(dumps(asdict(settings))))

\* C19 amended: a setter call writes the complete in-memory state before it
\* returns, except reset_engine_override for an extension that has no stored
\* override, which changes nothing and writes nothing; when a setter returns,
\* the settings file decodes to the in-memory Settings
C19_SettersPersist ==
  [][ (last.op = "none" /\ last'.op \in SetterOps) =>
        /\ last'.saved =
              ~( /\ last'.op = "reset_engine_override"
                 /\ normalize_extension(last'.ext) \notin DOMAIN settings.engine_overrides )
        /\ last'.saved => disk' = Text(dumps(asdict(settings')))
        /\ ~last'.saved => (settings' = settings /\ disk' = disk)
        /\ load(disk') = Returned(SettingsObject(settings')) ]_vars

\* C19 witness: reset_engine_override(".DOCX") found no override for docx and
\* wrote nothing, while the file of an earlier setter call still decodes to
\* the in-memory Settings, which hold an override for csv
C19_Witness ==
  /\ last.op = "reset_engine_override"
  /\ normalize_extension(last.ext) = Ext.docx
  /\ ~last.saved
  /\ Ext.csv \in DOMAIN settings.engine_overrides
  /\ disk = Text(dumps(asdict(settings)))
  /\ load(disk) = Returned(SettingsObject(settings))

\* C20: the settings file is never observable partially written: if the
\* process stops at any point, also inside save(), the next load() returns
\* either the complete state of the previous completed save or the complete
\* new state, never defaults caused by a truncated file
C20_StopLeavesOldOrNew ==
  last.op = "restarted" =>
    \/ last.loaded = last.previous
    \/ last.loaded = Returned(SettingsObject(last.original))

\* the signals of one kind among those emitted
Signals(kind) == SelectSeq(emitted, LAMBDA e : e[1] = kind)

\* how many of the first n converter calls of the worker had the given success
Tally(success, n) ==
  Cardinality({ k \in 1..n : worker.calls[k].result.success = success })

C13_ProgressAfterCall ==
  worker.pc # "none" =>
    \A k \in 1..Len(Signals("progress")) : Len(worker.calls) >= k

\* C13 amended: the progress notification (index, total, filename) of a file
\* is emitted before the converter is called for that file and the file's
\* outcome after the call has returned; index runs 1..N in input order and
\* total is N throughout
C13_ProgressBeforeCall ==
  worker.pc # "none" =>
    LET N == Len(worker.files)
        progress == Signals("progress")
        completed == Signals("file_completed")
    IN  /\ \A k \in 1..Len(progress) :
              progress[k] = <<"progress", k, N, Path(worker.files[k]).name>>
        /\ Len(progress) = Len(worker.calls) + (IF worker.pc = "convert" THEN 1 ELSE 0)
        /\ Len(completed) = Len(worker.calls) - (IF worker.pc = "report" THEN 1 ELSE 0)
        /\ \A k \in 1..Len(progress) : emitted[2 * k - 1] = progress[k]
        /\ \A k \in 1..Len(completed) : emitted[2 * k] = completed[k]

\* C13 witness: in a batch of two files progress(2, 2, ...) has been emitted
\* and the converter has not yet been called for the second file
C13_Witness ==
  /\ worker.pc = "convert"
  /\ Len(worker.files) = 2
  /\ Len(worker.calls) = 1
  /\ Len(emitted) = 3
  /\ emitted[3][1] = "progress"
  /\ emitted[3][2] = 2
  /\ emitted[3][3] = 2

\* C14: at most one ConversionWorker is in flight: a files-dropped request
\* that arrives while a worker exists starts no worker, prompts for nothing
\* and leaves the running batch, its file list and the output-path map
\* unchanged; it is rejected, not queued: a worker only comes into being in
\* the handler of a drop that found no worker, and runs the files of that drop
C14_DropWhileBusyRejected ==
  [][ /\ (last.op = "none" /\ last'.op = "files_dropped" /\ window._worker # None) =>
           /\ ~last'.started
           /\ last'.prompts = 0
           /\ window' = window
           /\ worker' = worker
           /\ emitted' = emitted
      /\ (worker.pc # "none" /\ worker'.pc # "none") => worker'.files = worker.files
      /\ (worker.pc = "none" /\ worker'.pc # "none") =>
           /\ window._worker = None
           /\ last'.op = "files_dropped"
           /\ last'.started
           /\ worker'.files = last'.files
      /\ (window'._worker # None) <=> (worker'.pc # "none") ]_vars

\* C14 witness: in "ask" mode a drop of other files arrived while the worker
\* was between a converter call and its report; nothing was prompted, nothing
\* started
C14_Witness ==
  /\ last.op = "files_dropped"
  /\ window._worker # None
  /\ worker.pc = "report"
  /\ settings.output_mode = "ask"
  /\ last.files # worker.files
  /\ ~last.started
  /\ last.prompts = 0
  /\ window._ask_output_paths # <<>>

\* C21: from the start of a batch worker until its conversion_done has been
\* handled no foreground handler mutates the shared Settings or calls
\* Settings.save(), so the worker never reads Settings while it is written
C21_NoSettingsWriteWhileWorker ==
  [][ window._worker # None =>
        /\ settings' = settings
        /\ disk' = disk
        /\ last'.saved => last' = last ]_vars

\* C22: normalize_extension returns its argument lowercased with every
\* leading dot removed: the result has no uppercase letter and no leading dot,
\* normalising it again changes nothing, "DOCX", ".docx", ".DOCX" and "..docx"
\* all give "docx", and "" and "." give "", which is not a supported format
C22_NormalizeExtension ==
  last.op = "normalize_extension" =>
    LET x == last.ext
        r == last.value
    IN  /\ \A i \in 1..Len(r) : r[i] \notin Range(UpperChars)
        /\ r # <<>> => r[1] # "."
        /\ \E k \in 0..Len(x) :
             /\ \A i \in 1..k : x[i] = "."
             /\ Len(r) = Len(x) - k
             /\ \A i \in 1..Len(r) : r[i] = LowerChar(x[k + i])
        /\ normalize_extension(r) = r
        /\ x \in { <<"D","O","C","X">>, <<".","d","o","c","x">>,
                   <<".","D","O","C","X">>, <<".",".","d","o","c","x">> }
             => r = Ext.docx
        /\ x \in { <<>>, <<".">> } => r = <<>> /\ ~is_supported_format(r)

C22_Witness ==
  /\ last.op = "normalize_extension"
  /\ last.ext = <<".",".","d","o","c","x">>
  /\ last.value = Ext.docx

\* position of an engine object in the registry's dict
PositionOf(regs, engine) == CHOOSE k \in 1..Len(regs) : regs[k] = engine

\* C23: the registry does not cache availability: every call of
\* get_available returns exactly the registered engines whose is_available()
\* is true at the moment of the call, in registration order, also when the
\* answer has changed since the previous call; the engines that
\* get_for_extension and get_engines_for_extension return are available at
\* the moment of their call
C23_AvailabilityNotCached ==
  [][ /\ (last' # last /\ last'.op = "get_available") =>
          LET r == last'.value IN
            /\ \A i \in 1..Len(r) : r[i] \in Range(engines') /\ available'[r[i]]
            /\ \A e \in Range(engines') : available'[e] => e \in Range(r)
            /\ \A i, j \in 1..Len(r) : i < j => PositionOf(engines', r[i]) < PositionOf(engines', r[j])
      /\ (last' # last /\ last'.op = "get_for_extension" /\ last'.engine # None) =>
          last'.engine \in Range(engines') /\ available'[last'.engine]
      /\ (last' # last /\ last'.op = "get_engines_for_extension") =>
          \A e \in Range(last'.value) : e \in Range(engines') /\ available'[e]
    ]_vars

C23_Witness ==
  /\ last.op = "get_available"
  /\ last.earlier # Nothing
  /\ last.earlier[1] # last.value
  /\ last.value = SelectSeq(engines, LAMBDA e : available[e])
  /\ Len(last.value) = 2
  /\ Len(engines) = 3

\* C24: get_engines_for_extension(ext) returns exactly the registered engines
\* that are available and declare the normalised extension, whether or not
\* the policy table names them, in registration order, and the same list for
\* every spelling of the extension
C24_EnginesForExtension ==
  last.op = "get_engines_for_extension" =>
    LET r == last.value
        ext == normalize_extension(last.ext)
    IN  /\ \A i \in 1..Len(r) :
             /\ r[i] \in Range(engines)
             /\ available[r[i]]
             /\ ext \in supported_formats[r[i]]
        /\ \A e \in Range(engines) :
             (available[e] /\ ext \in supported_formats[e]) => e \in Range(r)
        /\ \A i, j \in 1..Len(r) :
             i < j => PositionOf(engines, r[i]) < PositionOf(engines, r[j])
        /\ \A x \in ExtArgs :
             normalize_extension(x) = ext => get_engines_for_extension(x) = r

C24_Witness ==
  /\ last.op = "get_engines_for_extension"
  /\ last.ext = <<".","D","O","C","X">>
  /\ "CustomEngine" \in Range(last.value)
  /\ "MarkItDownEngine" \in Range(last.value)
  /\ \E e \in Range(engines) : ~available[e]
  /\ Len(last.value) < Len(engines)

\* C25: after any sequence of register calls the registry holds at most one
\* engine per id; register stores its argument under the argument's id,
\* replacing what was there (last wins); get(id) returns the engine stored
\* under the id, available or not, and nothing for an id never registered
C25_RegisterLastWins ==
  /\ \A i, j \in 1..Len(engines) :
       EngineName[engines[i]] = EngineName[engines[j]] => i = j
  /\ last.op = "register" =>
       /\ get(EngineName[last.engine]) = last.engine
       /\ \A e \in Range(engines) :
            EngineName[e] = EngineName[last.engine] => e = last.engine
  /\ last.op = "get" =>
       /\ last.engine # None =>
            last.engine \in Range(engines) /\ EngineName[last.engine] = last.engine_name
       /\ last.engine = None =>
            \A e \in Range(engines) : EngineName[e] # last.engine_name

C25_Witness ==
  /\ last.op = "get"
  /\ last.engine_name = "pandoc"
  /\ last.engine = "PandocDouble"
  /\ "PandocEngine" \notin Range(engines)
  /\ \E e \in Range(engines) : ~available[e]

\* C26: DocumentConverter.get_available_engines() returns one projected entry
\* for each registered engine that is currently available and no entry for an
\* engine that is currently unavailable
C26_OnlyAvailableListed ==
  last.op = "get_available_engines" =>
    /\ Len(last.value) = Len(get_available)
    /\ \A i \in 1..Len(last.value) :
         /\ last.value[i].name = EngineName[get_available[i]]
         /\ last.value[i].available

\* the drop in `last` was handled in "ask" mode with a dialog cancelled
DropCancelled ==
  last.op = "files_dropped" /\ ~last.started /\ last.prompts > 0

\* the drop in `last` started the batch that the worker is running
DropStartedInAskMode ==
  last.op = "files_dropped" /\ last.started /\ settings.output_mode = "ask"

BuiltinsAvailable ==
  /\ engines = <<"PandocEngine", "MarkItDownEngine">>
  /\ available["PandocEngine"] /\ available["MarkItDownEngine"]
  /\ settings.engine_overrides = <<>>

\* C28: with pandoc and markitdown registered and available, no forced engine
\* and no override, get_for_extension resolves every extension of the policy
\* table to the table's default engine, and convert on an existing file with
\* a supported extension never fails for want of an available engine
C28_PolicyDefaultsResolve ==
  BuiltinsAvailable =>
    /\ (last.op = "get_for_extension" /\ last.ext \in SUPPORTED_FORMATS) =>
         /\ last.engine # None
         /\ EngineName[last.engine] = get_engine_for_format(last.ext)
    /\ ( /\ last.op = "convert"
         /\ last.engine_name = None
         /\ exists(last.input_path)
         /\ is_supported_format(ExtensionOf(Path(last.input_path))) ) =>
         last.result.error # "No available engine"

\* the worker thread has ended, normally or by an exception
ThreadEnded == worker.pc \in {"finished", "died"}

\* C29: every started batch eventually emits conversion_done, whatever its
\* conversions do (succeed, report failure, fail abnormally), after which
\* _worker is cleared and the preferences button enabled again.  Only the
\* worker thread emits conversion_done, so the window stays "already
\* converting" for good exactly when that thread has ended without emitting
\* it: no reachable state has a worker whose thread has ended and no
\* conversion_done among the emitted signals
C29_EndedThreadEmittedDone ==
  (window._worker # None /\ ThreadEnded) => Signals("conversion_done") # <<>>

\* C30: in one registry state and for any extension, get_for_extension(ext)
\* returns an engine exactly when get_engines_for_extension(ext) is not
\* empty, and the engine it returns is a member of that list
C30_ResolvedIffListed ==
  last.op = "get_for_extension" =>
    LET listed == get_engines_for_extension(last.ext) IN
      /\ last.engine # None <=> listed # <<>>
      /\ last.engine # None => last.engine \in Range(listed)

C30_Witness ==
  /\ last.op = "get_for_extension"
  /\ last.engine = "MarkItDownEngine"
  /\ Len(get_engines_for_extension(last.ext)) = 2
  /\ get_engines_for_extension(last.ext)[1] # last.engine

====
